---- MODULE Spec2Model ----
(***************************************************************************)
(* The six entry points of mcp-foundry-agents-playground: the two          *)
(* deployment scripts (mcp-github-agent, mcp-sql-agent), the two test      *)
(* scripts (test-github-agent, test-sql-agent) and the two chat scripts    *)
(* (chat-with-github-agent, chat-with-sql-agent).  Each is followed from   *)
(* the start of main() to its return: configuration, API key, client,      *)
(* agent lookup, thread, then the scenario loop, the prompt loop or the    *)
(* create-or-update step, with the four copies of the sleep / runs.get /   *)
(* approve loop.  The agent-hosting service, the secret store, the         *)
(* configuration file and the person at the terminal are the environment:  *)
(* what they answer, and whether a call raises, is chosen                  *)
(* nondeterministically.                                                   *)
(***************************************************************************)
EXTENDS Integers, Sequences, FiniteSets

VARIABLES
    script,          \* which entry point is running
    pc,              \* its position
    feed,            \* what the service will answer to runs.get
    runNo,           \* runs created so far (the scenario number i in the tests)
    run,             \* the script's variable `run`: the last run object received
    attempt,         \* the script's variable `attempt`
    sleeps,          \* time.sleep(1) calls made for the current run
    fetches,         \* runs.get calls made for the current run
    iterCalls,       \* submit / cancel calls issued since the last runs.get
    episodeSubmits,  \* submissions made in the current requires_action episode: 0, 1, or 2 for more
    log,             \* submit / cancel calls of a scripted run, in order
    runOpen,         \* the last run made on `thread` was neither seen in a terminal
                     \* status nor cancelled by the script
    test_results,    \* the test scripts' list `test_results`
    tool_calls_made, \* the test scripts' list `tool_calls_made`: per entry, the number
                     \* of the run during which it was appended
    ended,           \* per finished scenario: was the run's last status completed
    exit_code,       \* the value main() returns; -1 while it is running
    session,         \* the AIProjectClient: "none", "open" (inside `with`), "closed"
    authType,        \* agent_config["mcpServer"]["authType"]; "unread" before the config is loaded
    api_key,         \* the script's variable `api_key`; "None" while it is None
    secretCalls,     \* calls made to the secret store since the script started
    mcp_headers,     \* mcp_tool.headers["X-API-Key"]; "unset" while absent
    configFailed,    \* a read of the configuration failed: file absent or key missing
    agents,          \* agents on the service that carry the configured name
    agent_id,        \* existing_agent_id / agent_id: 0 is None, -1 before the lookup
    lastFound,       \* what the last lookup returned; -1 if none, or an agent was written since
    prevFound,       \* the value of lastFound when the last lookup began
    launches,        \* times the script has been started
    declined,        \* the operator answered n to "Update existing agent?"
    agentCalls,      \* update_agent / create_agent calls made since the script started
    thread,          \* thread.id of the script's variable `thread`; 0 before the first
    threadsMade,     \* threads the service has created
    oldThreads,      \* ids of the threads a `clear` has replaced
    typed,           \* the line input() returned, while it is dispatched
    msgs,            \* messages.create calls made for the current input / scenario
    runs,            \* runs.create calls made for the current input / scenario
    msgThread,       \* thread id of the last message created; 0 if none
    runThread,       \* thread id of the last run created; 0 if none
    hostRaised       \* a hosting-service call raised (chat: in this loop iteration)

loopVars == << feed, run, attempt, sleeps, fetches, iterCalls, episodeSubmits, log,
              runOpen >>
testVars == << test_results, ended, tool_calls_made >>
keyVars == << authType, api_key, secretCalls, mcp_headers, configFailed >>
agentVars == << agents, agent_id, lastFound, prevFound, launches, declined, agentCalls >>
threadVars == << thread, threadsMade, oldThreads >>
sentVars == << runNo, msgs, runs, msgThread, runThread >>

vars == << script, pc, exit_code, session, typed, hostRaised, loopVars, testVars,
           keyVars, agentVars, threadVars, sentVars >>

----------------------------------------------------------------------------
(* Bounds of the model *)

\* call ids a requires_action episode may carry
MaxCalls == 2
\* messages a user sends in one chat session
MaxMessages == 2
\* `clear` commands a user gives in one chat session
MaxClears == 1
\* times a deployment script is started
MaxLaunches == 2
\* agents of the configured name the service holds
MaxAgents == 2

(* Program constants *)

GithubChatMaxAttempts == 120
SqlChatMaxAttempts == 60
GithubTestMaxAttempts == 60
SqlTestMaxAttempts == 60
\* len(TEST_SCENARIOS)
GithubTestScenarios == 3
SqlTestScenarios == 4

----------------------------------------------------------------------------
(* Data *)

TestScripts == {"test_github", "test_sql"}
ChatScripts == {"chat_github", "chat_sql"}
DeployScripts == {"deploy_github", "deploy_sql"}
Scripts == TestScripts \cup ChatScripts \cup DeployScripts
GithubScripts == {"deploy_github", "test_github", "chat_github"}
SqlScripts == {"deploy_sql", "test_sql", "chat_sql"}

Terminal == {"completed", "failed", "cancelled", "expired"}
NonTerminal == {"queued", "in_progress", "requires_action"}
Statuses == NonTerminal \cup Terminal

CallIds == 1 .. MaxCalls

\* A pending tool call: its id, and whether it is a RequiredMcpToolCall.
ToolCalls == [id : CallIds, mcp : BOOLEAN]

\* The lists of pending calls an episode may carry: distinct ids, in id order.
ToolCallLists ==
    { l \in UNION { [1 .. n -> ToolCalls] : n \in 0 .. MaxCalls } :
        \A i, j \in DOMAIN l : i < j => l[i].id < l[j].id }

\* run.required_action: absent, an action of the approval shape the loop looks
\* for, or an action of some other shape.
NoAction == [shape |-> "none", tool_calls |-> << >>]
OtherAction == [shape |-> "other", tool_calls |-> << >>]
ApprovalAction(l) == [shape |-> "approval", tool_calls |-> l]
RequiredActions == {NoAction, OtherAction} \cup { ApprovalAction(l) : l \in ToolCallLists }

\* What runs.get may return.
Responses ==
    { [status |-> s, required_action |-> NoAction] : s \in Statuses \ {"requires_action"} }
    \cup { [status |-> "requires_action", required_action |-> a] : a \in RequiredActions }

NoRun == [status |-> "none", required_action |-> NoAction]

Free == [free |-> TRUE, rest |-> << >>]
Scripted(s) == [free |-> FALSE, rest |-> s]

PendingIds(r) == { r.required_action.tool_calls[i].id : i \in DOMAIN r.required_action.tool_calls }

SubmitCall(approvals) == [op |-> "submit", tool_approvals |-> approvals]
CancelCall == [op |-> "cancel", tool_approvals |-> << >>]

IsMcp(call) == call.mcp

max_attempts ==
    CASE script = "chat_github" -> GithubChatMaxAttempts
      [] script = "chat_sql" -> SqlChatMaxAttempts
      [] script = "test_github" -> GithubTestMaxAttempts
      [] script = "test_sql" -> SqlTestMaxAttempts
      [] OTHER -> 0

NumScenarios == IF script = "test_sql" THEN SqlTestScenarios ELSE GithubTestScenarios

\* The values of mcpServer.authType.
AuthTypes == {"none", "apiKey"}

\* What the secret store may hold under the configured secret name: a key,
\* or the empty string.
SecretValues == {"abc123", ""}

\* Python truthiness of api_key: None and "" are false.
Truthy(key) == key \notin {"None", ""}

\* A line typed at the prompt: a word, whether some of its letters are upper
\* case, and whether blanks surround it.  The word "" is the empty line,
\* "hello" stands for any text that is not a command.
Words == {"", "quit", "exit", "bye", "help", "clear", "hello"}
Lines == { l \in [word : Words, upper : BOOLEAN, padded : BOOLEAN] : l.word = "" => ~l.upper }
NoLine == [word |-> "none", upper |-> FALSE, padded |-> FALSE]

\* str.strip() and str.lower()
strip(l) == [l EXCEPT !.padded = FALSE]
lower(l) == [l EXCEPT !.upper = FALSE]

\* A string literal of the source: lower case, no blanks around it.
Literal(w) == [word |-> w, upper |-> FALSE, padded |-> FALSE]

----------------------------------------------------------------------------
(* Leaving main() *)

\* return <code> before the client exists, or an exception that leaves main()
\* there: the interpreter then ends with status 1.
Return(code) ==
    /\ pc' = "exited"
    /\ exit_code' = code
    /\ session' = session

\* Mutant: the client is used without `with`, nothing closes it.
LeaveWith_Leak(code) ==
    /\ pc' = "exited"
    /\ exit_code' = code
    /\ session' = session

\* return, break or an exception inside `with project_client:`: the block's
\* exit closes the client, then main() returns <code>.
LeaveWith(code) ==
    /\ pc' = "exited"
    /\ exit_code' = code
    /\ session' = "closed"

\* The polling loop is left: its counters belong to the run that was polled
\* and start again at the next runs.create; of the run object the code that
\* follows reads the status only.
LoopLeft ==
    /\ attempt' = 0
    /\ sleeps' = 0
    /\ fetches' = 0
    /\ iterCalls' = << >>
    /\ episodeSubmits' = 0
    /\ run' = [status |-> run.status, required_action |-> NoAction]
    /\ UNCHANGED << feed, log, runOpen >>

\* An exception raised by a hosting-service call inside the `with` block.  In
\* a chat loop iteration `except Exception` prints it and the prompt returns;
\* elsewhere the outer `except Exception` returns 1.
Caught(in_iteration) ==
    /\ hostRaised' = TRUE
    /\ IF script \in ChatScripts /\ in_iteration
       THEN pc' = "prompt" /\ UNCHANGED << exit_code, session >>
       ELSE LeaveWith(1)

----------------------------------------------------------------------------
(* From the start of main() to the thread *)

\* Mutant: every script fetches the key, as chat-with-sql-agent does.
NeedsApiKey_Always(s, a) == TRUE

\* Whether the script asks for the MCP API key: the SQL deployment and test
\* scripts when authType is apiKey, the SQL chat whatever authType is, the
\* GitHub scripts never.
NeedsApiKey(s, a) ==
    CASE s \in {"deploy_sql", "test_sql"} -> a = "apiKey"
      [] s = "chat_sql" -> TRUE
      [] OTHER -> FALSE

\* chat-with-sql-agent fetches the key inside the `with` block, after the
\* agent lookup; the others before the client is built.
KeyInsideWith(s) == s = "chat_sql"

\* load_config(), get_agent_config(), get_project_config()
LoadConfig ==
    /\ pc = "config"
    /\ \E a \in AuthTypes :
         /\ authType' = a
         /\ pc' = IF NeedsApiKey(script, a) /\ ~KeyInsideWith(script)
                  THEN "secret" ELSE "connect"
    /\ UNCHANGED << script, exit_code, session, typed, hostRaised, api_key,
                    secretCalls, mcp_headers, configFailed, loopVars, testVars,
                    agentVars, threadVars, sentVars >>

\* The configuration cannot be loaded (the file is absent, agents.<name> or
\* project is missing): `except Exception: return 1`.
ConfigFails ==
    /\ pc = "config"
    /\ configFailed' = TRUE
    /\ Return(1)
    /\ UNCHANGED << script, typed, hostRaised, authType, api_key, secretCalls,
                    mcp_headers, loopVars, testVars, agentVars, threadVars, sentVars >>

\* The secret store answers: api_key = <the secret's value>.
GetSecret ==
    /\ pc = "secret"
    /\ \E v \in SecretValues : api_key' = v
    /\ secretCalls' = secretCalls + 1
    /\ pc' = IF KeyInsideWith(script) THEN "tool" ELSE "connect"
    /\ UNCHANGED << script, exit_code, session, typed, hostRaised, authType,
                    mcp_headers, configFailed, loopVars, testVars, agentVars,
                    threadVars, sentVars >>

\* Mutant: the failure is printed and the script goes on without a key.
SecretFails_GoesOn ==
    /\ pc = "secret"
    /\ \E called \in BOOLEAN :
         /\ secretCalls' = secretCalls + (IF called THEN 1 ELSE 0)
         /\ configFailed' = ~called
    /\ pc' = IF KeyInsideWith(script) THEN "tool" ELSE "connect"
    /\ UNCHANGED << exit_code, session >>
    /\ UNCHANGED << script, typed, hostRaised, authType, api_key, mcp_headers,
                    loopVars, testVars, agentVars, threadVars, sentVars >>

\* The key cannot be had: the vault name is missing from the configuration
\* (no call is made), or the secret store raises.  The script returns 1.
SecretFails ==
    /\ pc = "secret"
    /\ \E called \in BOOLEAN :
         /\ secretCalls' = secretCalls + (IF called THEN 1 ELSE 0)
         /\ configFailed' = ~called
    /\ IF KeyInsideWith(script) THEN LeaveWith(1) ELSE Return(1)
    /\ UNCHANGED << script, typed, hostRaised, authType, api_key, mcp_headers,
                    loopVars, testVars, agentVars, threadVars, sentVars >>

\* project_client = AIProjectClient(...); with project_client:
Connect ==
    /\ pc = "connect"
    /\ session' = "open"
    /\ pc' = "find"
    /\ UNCHANGED << script, exit_code, typed, hostRaised, loopVars, testVars,
                    keyVars, agentVars, threadVars, sentVars >>

\* The constructor raises: chat-with-github-agent returns 1, in the other
\* scripts the exception leaves main().
ConnectFails ==
    /\ pc = "connect"
    /\ Return(1)
    /\ UNCHANGED << script, typed, hostRaised, loopVars, testVars, keyVars,
                    agentVars, threadVars, sentVars >>

\* What agents_client.list() yields of the agents that carry the configured
\* name: their ids, the newest first.
Listing(n) == [ i \in 1 .. n |-> n + 1 - i ]

\* find_agent_by_name of the deployment scripts: the id of the first agent of
\* that name, None (0) if there is none, and None as well when list() raises.
find_agent_by_name(listing, raised) ==
    IF raised THEN 0
    ELSE IF listing = << >> THEN 0 ELSE Head(listing)

\* find_agent_by_name of config_utils, which the test and chat scripts import.
ConfigUtilsFind(listing) == IF listing = << >> THEN 0 ELSE Head(listing)

\* existing_agent_id = find_agent_by_name(agents_client, agent_name)
DeployFind ==
    /\ script \in DeployScripts
    /\ pc = "find"
    /\ \E raised \in BOOLEAN :
         /\ agent_id' = find_agent_by_name(Listing(agents), raised)
         /\ hostRaised' = (hostRaised \/ raised)
    /\ prevFound' = lastFound
    /\ lastFound' = agent_id'
    /\ pc' = IF agent_id' # 0 THEN "confirm" ELSE "tool"
    /\ UNCHANGED << script, exit_code, session, typed, agents, launches, declined,
                    agentCalls, loopVars, testVars, keyVars, threadVars, sentVars >>

\* Mutant: the script goes on without an agent.
NotFound_Never(id) == FALSE

\* `if not agent_id:` None is false, an agent id is true.
NotFound(id) == id = 0

\* agent_id = find_agent_by_name(...) in a test or chat script; `if not
\* agent_id: return 1`.
LookUp ==
    /\ script \notin DeployScripts
    /\ pc = "find"
    /\ agent_id' = ConfigUtilsFind(Listing(agents))
    /\ IF NotFound(agent_id')
       THEN LeaveWith(1)
       ELSE /\ pc' = IF script \in TestScripts THEN "get_agent"
                     ELSE IF NeedsApiKey(script, authType) /\ KeyInsideWith(script)
                          THEN "secret" ELSE "tool"
            /\ UNCHANGED << exit_code, session >>
    /\ UNCHANGED << script, typed, hostRaised, agents, lastFound, prevFound, launches,
                    declined, agentCalls, loopVars, testVars, keyVars, threadVars,
                    sentVars >>

\* The lookup of a test or chat script raises.
LookUpRaises ==
    /\ script \notin DeployScripts
    /\ pc = "find"
    /\ Caught(FALSE)
    /\ UNCHANGED << script, typed, loopVars, testVars, keyVars, agentVars,
                    threadVars, sentVars >>

\* What the operator may type when asked whether to update the agent.
Answers == { l \in [word : {"n", "y", ""}, upper : BOOLEAN, padded : BOOLEAN] :
               l.word = "" => ~l.upper }

\* response = input(...).strip().lower(); if response == 'n'
Declines(answer) == lower(strip(answer)) = Literal("n")

\* The agent exists: "Update existing agent? (Y/n)".
Confirm ==
    /\ script \in DeployScripts
    /\ pc = "confirm"
    /\ \E answer \in Answers :
         /\ declined' = Declines(answer)
         /\ IF Declines(answer)
            THEN LeaveWith(0)
            ELSE pc' = "tool" /\ UNCHANGED << exit_code, session >>
    /\ UNCHANGED << script, typed, hostRaised, agents, agent_id, lastFound, prevFound,
                    launches, agentCalls, loopVars, testVars, keyVars, threadVars,
                    sentVars >>

\* agent = agents_client.get_agent(agent_id), in the test scripts.
GetAgent ==
    /\ script \in TestScripts
    /\ pc = "get_agent"
    /\ pc' = "tool"
    /\ UNCHANGED << script, exit_code, session, typed, hostRaised, loopVars,
                    testVars, keyVars, agentVars, threadVars, sentVars >>

GetAgentRaises ==
    /\ script \in TestScripts
    /\ pc = "get_agent"
    /\ Caught(FALSE)
    /\ UNCHANGED << script, typed, loopVars, testVars, keyVars, agentVars,
                    threadVars, sentVars >>

\* Mutant: update_headers is never called.
HeadersAfterInit_Never(s, key) == "unset"

\* mcp_tool = McpTool(...); in the SQL scripts `if api_key:
\* mcp_tool.update_headers("X-API-Key", api_key)`.
HeadersAfterInit(s, key) == IF s \in SqlScripts /\ Truthy(key) THEN key ELSE "unset"

InitTool ==
    /\ pc = "tool"
    /\ mcp_headers' = HeadersAfterInit(script, api_key)
    /\ pc' = IF script \in DeployScripts THEN "upsert" ELSE "thread"
    /\ UNCHANGED << script, exit_code, session, typed, hostRaised, authType, api_key,
                    secretCalls, configFailed, loopVars, testVars, agentVars,
                    threadVars, sentVars >>

\* thread = agents_client.threads.create(): the service hands out an id it
\* has not used before.
NewThread ==
    /\ threadsMade' = threadsMade + 1
    /\ thread' = threadsMade + 1

CreateThread ==
    /\ pc = "thread"
    /\ NewThread
    /\ pc' = IF script \in TestScripts THEN "scenario" ELSE "prompt"
    /\ UNCHANGED << script, exit_code, session, typed, hostRaised, oldThreads,
                    loopVars, testVars, keyVars, agentVars, sentVars >>

CreateThreadRaises ==
    /\ pc = "thread"
    /\ Caught(FALSE)
    /\ UNCHANGED << script, typed, loopVars, testVars, keyVars, agentVars,
                    threadVars, sentVars >>

\* Mutant: the script creates the agent whatever the lookup returned.
AgentCall_AlwaysCreates(existing_agent_id) == [op |-> "create", id |-> 0]

\* `if existing_agent_id:` update_agent(agent_id=existing_agent_id, ...),
\* `else:` create_agent(...).
AgentCall(existing_agent_id) ==
    IF existing_agent_id # 0
    THEN [op |-> "update", id |-> existing_agent_id]
    ELSE [op |-> "create", id |-> 0]

\* The agent is updated or created, its details are printed; return 0.
Upsert ==
    /\ script \in DeployScripts
    /\ pc = "upsert"
    /\ IF AgentCall(agent_id).op = "update"
       THEN agents' = agents
       ELSE agents < MaxAgents /\ agents' = agents + 1
    /\ agentCalls' = Append(agentCalls, AgentCall(agent_id))
    /\ lastFound' = -1
    /\ LeaveWith(0)
    /\ UNCHANGED << script, typed, hostRaised, agent_id, prevFound, launches,
                    declined, loopVars, testVars, keyVars, threadVars, sentVars >>

UpsertRaises ==
    /\ script \in DeployScripts
    /\ pc = "upsert"
    /\ Caught(FALSE)
    /\ UNCHANGED << script, typed, loopVars, testVars, keyVars, agentVars,
                    threadVars, sentVars >>

\* The deployment script is started once more, against the same service.
Relaunch ==
    /\ script \in DeployScripts
    /\ pc = "exited"
    /\ launches < MaxLaunches
    /\ launches' = launches + 1
    /\ pc' = "config"
    /\ exit_code' = -1
    /\ session' = "none"
    /\ authType' = "unread"
    /\ api_key' = "None"
    /\ secretCalls' = 0
    /\ mcp_headers' = "unset"
    /\ configFailed' = FALSE
    /\ agent_id' = -1
    /\ declined' = FALSE
    /\ agentCalls' = << >>
    /\ hostRaised' = FALSE
    /\ UNCHANGED << script, typed, agents, lastFound, prevFound, loopVars,
                    testVars, threadVars, sentVars >>

----------------------------------------------------------------------------
(* Steps shared by the four loops *)

\* tool_calls_made.append(...) of the test loops: one entry for each pending
\* call that is a RequiredMcpToolCall, when the required action is of the
\* approval shape and its list is not empty.  The chat loops' own list is only
\* printed and is left out.
ToolCallsRecorded(r) ==
    IF /\ script \in TestScripts
       /\ r.status = "requires_action"
       /\ r.required_action.shape = "approval"
       /\ SelectSeq(r.required_action.tool_calls, IsMcp) # << >>
    THEN tool_calls_made \cup {runNo}
    ELSE tool_calls_made

\* What a loop step leaves behind: the calls it issued, and whether it left
\* the loop.
AfterStep(calls, stop) ==
    /\ iterCalls' = calls
    /\ episodeSubmits' =
         IF \E i \in DOMAIN calls : calls[i].op = "submit"
         THEN (IF episodeSubmits = 0 THEN 1 ELSE 2)
         ELSE episodeSubmits
    /\ log' = IF feed.free THEN log ELSE log \o calls
    /\ runOpen' = (runOpen /\ \A i \in DOMAIN calls : calls[i].op # "cancel")
    /\ tool_calls_made' = ToolCallsRecorded(run)
    /\ pc' = IF stop THEN "done" ELSE "sleep"
    /\ UNCHANGED << script, feed, run, attempt, sleeps, fetches, exit_code, session,
                    typed, hostRaised, test_results, ended, keyVars, agentVars,
                    threadVars, sentVars >>

\* The run object of the last poll, as the iteration that begins leaves it
\* to the next runs.get: nothing reads it before it is replaced, and of the
\* episode it belonged to the status and the pending call ids are kept.
Polled(r) ==
    [status |-> r.status,
     required_action |->
         [shape |-> r.required_action.shape,
          tool_calls |-> [ i \in DOMAIN r.required_action.tool_calls |->
                             [id |-> r.required_action.tool_calls[i].id, mcp |-> TRUE] ]]]

\* time.sleep(1); attempt += 1
Sleep ==
    /\ pc = "sleep"
    /\ attempt' = attempt + 1
    /\ sleeps' = sleeps + 1
    /\ run' = Polled(run)
    /\ iterCalls' = << >>
    /\ pc' = "fetch"
    /\ UNCHANGED << script, feed, fetches, episodeSubmits, log,
                    runOpen, exit_code, session, typed, hostRaised, testVars,
                    keyVars, agentVars, threadVars, sentVars >>

\* Two consecutive polls belong to one requires_action episode: both return
\* requires_action with the same pending call ids.
SameEpisode(old, new) ==
    /\ fetches >= 1
    /\ old.status = "requires_action"
    /\ new.status = "requires_action"
    /\ PendingIds(old) = PendingIds(new)

\* run = agents_client.runs.get(thread_id=..., run_id=...)
Fetch ==
    /\ pc = "fetch"
    /\ \E resp \in Responses :
         /\ feed.free \/ (feed.rest # << >> /\ resp = Head(feed.rest))
         /\ run' = resp
         /\ runOpen' = (resp.status \notin Terminal)
         /\ episodeSubmits' = IF SameEpisode(run, resp) THEN episodeSubmits ELSE 0
    /\ feed' = IF feed.free THEN feed ELSE Scripted(Tail(feed.rest))
    /\ fetches' = fetches + 1
    /\ iterCalls' = << >>
    /\ pc' = "handle"
    /\ UNCHANGED << script, attempt, sleeps, log, exit_code, session, typed,
                    hostRaised, testVars, keyVars, agentVars, threadVars, sentVars >>

----------------------------------------------------------------------------
(* chat-with-github-agent.py: wait_for_run_completion *)

\* Mutant: the cancelled / expired branch forgets expired.
GithubChatReturns_NoExpired(r) == r.status \in {"completed", "failed", "cancelled"}

GithubChatReturns(r) == r.status \in {"completed", "failed", "cancelled", "expired"}

GithubChatApproves(r) ==
    /\ r.status = "requires_action"
    /\ r.required_action.shape # "none"
    /\ r.required_action.shape = "approval"

GithubChatToolApprovals(required_calls) ==
    [ i \in DOMAIN required_calls |->
        [call_id |-> required_calls[i].id, approve |-> TRUE, headers |-> "unset"] ]

GithubChatCalls(r) ==
    IF GithubChatApproves(r)
    THEN << SubmitCall(GithubChatToolApprovals(r.required_action.tool_calls)) >>
    ELSE << >>

\* Mutant: the timeout test is off by one.
GithubChatTimedOut_OffByOne(a) == a > GithubChatMaxAttempts

GithubChatTimedOut(a) == a >= GithubChatMaxAttempts

GithubChatHandle ==
    /\ script = "chat_github"
    /\ pc = "handle"
    /\ AfterStep(IF GithubChatReturns(run) THEN << >> ELSE GithubChatCalls(run),
                 GithubChatReturns(run) \/ GithubChatTimedOut(attempt))

----------------------------------------------------------------------------
(* chat-with-sql-agent.py: the loop in main *)

\* Mutant: the loop condition forgets in_progress.
SqlChatWhile_NoInProgress(r) == r.status \in {"queued", "requires_action"}

SqlChatWhile(r) == r.status \in {"queued", "in_progress", "requires_action"}

SqlChatApproves(r) ==
    /\ r.status = "requires_action"
    /\ r.required_action.shape # "none"
    /\ r.required_action.shape = "approval"

\* Mutant: only MCP tool calls are approved, the others are rejected.
SqlChatToolApprovals_RejectOthers(tool_calls) ==
    [ i \in DOMAIN tool_calls |->
        [call_id |-> tool_calls[i].id, approve |-> tool_calls[i].mcp,
         headers |-> mcp_headers] ]

SqlChatToolApprovals(tool_calls) ==
    [ i \in DOMAIN tool_calls |->
        [call_id |-> tool_calls[i].id, approve |-> TRUE, headers |-> mcp_headers] ]

SqlChatAnomaly(r) == SqlChatApproves(r) /\ r.required_action.tool_calls = << >>

SqlChatCalls(r) ==
    IF ~SqlChatApproves(r) THEN << >>
    ELSE IF r.required_action.tool_calls # << >>
         THEN << SubmitCall(SqlChatToolApprovals(r.required_action.tool_calls)) >>
         ELSE << CancelCall >>

SqlChatTimedOut(a) == a >= SqlChatMaxAttempts

SqlChatHandle ==
    /\ script = "chat_sql"
    /\ pc = "handle"
    /\ AfterStep(SqlChatCalls(run),
                 SqlChatAnomaly(run) \/ SqlChatTimedOut(attempt) \/ ~SqlChatWhile(run))

----------------------------------------------------------------------------
(* test-github-agent.py and test-sql-agent.py: the loop in main *)

TestWhile(r) == r.status \in {"queued", "in_progress", "requires_action"}

TestApproves(r) ==
    /\ r.status = "requires_action"
    /\ r.required_action.shape = "approval"

TestAnomaly(r) == TestApproves(r) /\ r.required_action.tool_calls = << >>

TestToolApprovals(tool_calls) ==
    LET mcp_calls == SelectSeq(tool_calls, IsMcp)
    IN  [ i \in DOMAIN mcp_calls |->
            [call_id |-> mcp_calls[i].id, approve |-> TRUE, headers |-> mcp_headers] ]

TestCalls(r) ==
    IF ~TestApproves(r) THEN << >>
    ELSE IF r.required_action.tool_calls = << >> THEN << CancelCall >>
    ELSE IF TestToolApprovals(r.required_action.tool_calls) # << >>
         THEN << SubmitCall(TestToolApprovals(r.required_action.tool_calls)) >>
         ELSE << >>

GithubTestTimedOut(a) == a >= GithubTestMaxAttempts

\* Mutant: the loop gives up one attempt early.
SqlTestTimedOut_Early(a) == a >= SqlTestMaxAttempts - 1

SqlTestTimedOut(a) == a >= SqlTestMaxAttempts

GithubTestHandle ==
    /\ script = "test_github"
    /\ pc = "handle"
    /\ AfterStep(TestCalls(run),
                 TestAnomaly(run) \/ GithubTestTimedOut(attempt) \/ ~TestWhile(run))

SqlTestHandle ==
    /\ script = "test_sql"
    /\ pc = "handle"
    /\ AfterStep(TestCalls(run),
                 TestAnomaly(run) \/ SqlTestTimedOut(attempt) \/ ~TestWhile(run))

----------------------------------------------------------------------------
(* Exceptions inside the loops *)

\* The submit / cancel calls the running script issues for the run object r.
LoopCalls(r) ==
    CASE script = "chat_github" -> IF GithubChatReturns(r) THEN << >> ELSE GithubChatCalls(r)
      [] script = "chat_sql" -> SqlChatCalls(r)
      [] OTHER -> TestCalls(r)

\* runs.get raises.
FetchRaises ==
    /\ pc = "fetch"
    /\ Caught(TRUE)
    /\ LoopLeft
    /\ UNCHANGED << script, typed, testVars, keyVars, agentVars,
                    threadVars, sentVars >>

\* runs.submit_tool_outputs or runs.cancel raises.
HandleRaises ==
    /\ pc = "handle"
    /\ LoopCalls(run) # << >>
    /\ Caught(TRUE)
    /\ LoopLeft
    /\ UNCHANGED << script, typed, testVars, keyVars, agentVars,
                    threadVars, sentVars >>

----------------------------------------------------------------------------
(* Creating a message and a run, and what follows the loop *)

\* Whether the loop body is entered with the run runs.create returned.
LoopEntered(s, r) ==
    CASE s = "chat_github" -> TRUE
      [] s = "chat_sql" -> SqlChatWhile(r)
      [] OTHER -> TestWhile(r)

\* message = agents_client.messages.create(thread_id=thread.id, ...)
SendMessage ==
    /\ pc = "send"
    /\ msgs' = msgs + 1
    /\ msgThread' = thread
    /\ pc' = "create_run"
    /\ UNCHANGED << script, exit_code, session, typed, hostRaised, runNo, runs,
                    runThread, loopVars, testVars, keyVars, agentVars, threadVars >>

SendMessageRaises ==
    /\ pc = "send"
    /\ Caught(TRUE)
    /\ UNCHANGED << script, typed, loopVars, testVars, keyVars, agentVars,
                    threadVars, sentVars >>

\* Mutant: the list is made once, before the scenario loop.
ToolCallsAtRunStart_Kept(s, made) == made

\* tool_calls_made = [] after runs.create, in each pass of the scenario loop.
ToolCallsAtRunStart(s, made) == IF s \in TestScripts THEN {} ELSE made

\* run = agents_client.runs.create(thread_id=thread.id, ...); attempt = 0;
\* tool_calls_made = []
CreateRun ==
    /\ pc = "create_run"
    /\ runNo' = runNo + 1
    /\ runs' = runs + 1
    /\ runThread' = thread
    /\ \E s \in Statuses :
         /\ run' = [status |-> s, required_action |-> NoAction]
         /\ runOpen' = (s \notin Terminal)
         /\ pc' = IF LoopEntered(script, run') THEN "sleep" ELSE "done"
    /\ attempt' = 0
    /\ sleeps' = 0
    /\ fetches' = 0
    /\ iterCalls' = << >>
    /\ episodeSubmits' = 0
    /\ feed' = IF runNo = 0 THEN feed ELSE Free
    /\ log' = << >>
    /\ tool_calls_made' = ToolCallsAtRunStart(script, tool_calls_made)
    /\ UNCHANGED << script, exit_code, session, typed, hostRaised, msgs, msgThread,
                    test_results, ended, keyVars, agentVars, threadVars >>

CreateRunRaises ==
    /\ pc = "create_run"
    /\ Caught(TRUE)
    /\ UNCHANGED << script, typed, loopVars, testVars, keyVars, agentVars,
                    threadVars, sentVars >>

\* One pass of `for i, scenario in enumerate(TEST_SCENARIOS, 1)` begins.
StartScenario ==
    /\ script \in TestScripts
    /\ pc = "scenario"
    /\ msgs' = 0
    /\ runs' = 0
    /\ pc' = "send"
    /\ UNCHANGED << script, exit_code, session, typed, hostRaised, runNo, msgThread,
                    runThread, loopVars, testVars, keyVars, agentVars, threadVars >>

\* Mutant: every status but failed counts as a success.
Success_NotFailed(r) == r.status # "failed"

Success(r) == r.status = "completed"

\* Of the list stored under "tool_calls" in a result, the model keeps the
\* entries that were not appended during the run of scenario i.
StaleEntries(made, i) == made \ {i}

\* The rest of the pass: messages.list, the result is recorded, the next
\* scenario follows.
RecordResult ==
    /\ script \in TestScripts
    /\ pc = "done"
    /\ test_results' = Append(test_results,
                              [scenario |-> runNo, success |-> Success(run),
                               tool_calls |-> StaleEntries(tool_calls_made, runNo)])
    /\ ended' = Append(ended, run.status = "completed")
    /\ pc' = IF runNo < NumScenarios THEN "scenario" ELSE "summary"
    /\ LoopLeft
    /\ UNCHANGED << script, exit_code, session, typed, hostRaised, tool_calls_made,
                    keyVars, agentVars, threadVars, sentVars >>

\* messages.list raises after the loop of a test script.
RecordRaises ==
    /\ script \in TestScripts
    /\ pc = "done"
    /\ Caught(TRUE)
    /\ LoopLeft
    /\ UNCHANGED << script, typed, testVars, keyVars, agentVars,
                    threadVars, sentVars >>

ExitCode(results) ==
    LET successful == Cardinality({ i \in DOMAIN results : results[i].success })
        total == Len(results)
    IN  IF successful = total THEN 0 ELSE 1

Summary ==
    /\ script \in TestScripts
    /\ pc = "summary"
    /\ LeaveWith(ExitCode(test_results))
    /\ UNCHANGED << script, typed, hostRaised, loopVars, testVars, keyVars,
                    agentVars, threadVars, sentVars >>

----------------------------------------------------------------------------
(* The prompt loop of the chat scripts *)

\* user_input = input().strip()
ReadLine ==
    /\ script \in ChatScripts
    /\ pc = "prompt"
    /\ \E l \in Lines :
         /\ l.word = "hello" => runNo < MaxMessages
         /\ l.word = "clear" => Cardinality(oldThreads) < MaxClears
         /\ typed' = l
    /\ hostRaised' = FALSE
    /\ pc' = "dispatch"
    /\ UNCHANGED << script, exit_code, session, loopVars, testVars, keyVars,
                    agentVars, threadVars, sentVars >>

\* Ctrl-C at the prompt: `except KeyboardInterrupt: break`.
Interrupt ==
    /\ script \in ChatScripts
    /\ pc = "prompt"
    /\ LeaveWith(0)
    /\ UNCHANGED << script, typed, hostRaised, loopVars, testVars, keyVars,
                    agentVars, threadVars, sentVars >>

\* Mutant: the commands are compared without lower().
Command_CaseSensitive(user_input) ==
    IF user_input = Literal("") THEN "empty"
    ELSE IF user_input \in {Literal("quit"), Literal("exit"), Literal("bye")} THEN "quit"
    ELSE IF user_input = Literal("help") THEN "help"
    ELSE IF user_input = Literal("clear") THEN "clear"
    ELSE "message"

\* The branch the stripped line takes: `if not user_input`, then the
\* comparisons of user_input.lower().
Command(user_input) ==
    IF user_input = Literal("") THEN "empty"
    ELSE IF lower(user_input) \in {Literal("quit"), Literal("exit"), Literal("bye")} THEN "quit"
    ELSE IF lower(user_input) = Literal("help") THEN "help"
    ELSE IF lower(user_input) = Literal("clear") THEN "clear"
    ELSE "message"

\* Mutant: `clear` prints its message and keeps the thread.
ThreadAfter_Keeps(cmd, current, fresh) == current

\* The thread the loop goes on with: `clear` is the only branch that assigns
\* `thread`.
ThreadAfter(cmd, current, fresh) == IF cmd = "clear" THEN fresh ELSE current

\* if not user_input: continue
EmptyLine ==
    /\ script \in ChatScripts
    /\ pc = "dispatch"
    /\ Command(strip(typed)) = "empty"
    /\ pc' = "prompt"
    /\ typed' = NoLine
    /\ UNCHANGED << script, exit_code, session, hostRaised, loopVars,
                    testVars, keyVars, agentVars, threadVars, sentVars >>

\* quit / exit / bye: break, then return 0
Quit ==
    /\ script \in ChatScripts
    /\ pc = "dispatch"
    /\ Command(strip(typed)) = "quit"
    /\ LeaveWith(0)
    /\ UNCHANGED << script, typed, hostRaised, loopVars, testVars, keyVars,
                    agentVars, threadVars, sentVars >>

\* help: print_help(); continue
Help ==
    /\ script \in ChatScripts
    /\ pc = "dispatch"
    /\ Command(strip(typed)) = "help"
    /\ pc' = "prompt"
    /\ thread' = ThreadAfter("help", thread, threadsMade + 1)
    /\ typed' = NoLine
    /\ UNCHANGED << script, exit_code, session, hostRaised, threadsMade,
                    oldThreads, loopVars, testVars, keyVars, agentVars, sentVars >>

\* clear: thread = agents_client.threads.create(); continue
Clear ==
    /\ script \in ChatScripts
    /\ pc = "dispatch"
    /\ Command(strip(typed)) = "clear"
    /\ threadsMade' = threadsMade + 1
    /\ thread' = ThreadAfter("clear", thread, threadsMade + 1)
    /\ oldThreads' = oldThreads \cup {thread}
    /\ runOpen' = FALSE
    /\ pc' = "prompt"
    /\ typed' = NoLine
    /\ UNCHANGED << script, exit_code, session, hostRaised, feed, run, attempt,
                    sleeps, fetches, iterCalls, episodeSubmits, log, testVars,
                    keyVars, agentVars, sentVars >>

\* threads.create raises in the clear branch.
ClearRaises ==
    /\ script \in ChatScripts
    /\ pc = "dispatch"
    /\ Command(strip(typed)) = "clear"
    /\ Caught(TRUE)
    /\ typed' = NoLine
    /\ UNCHANGED << script, loopVars, testVars, keyVars, agentVars,
                    threadVars, sentVars >>

\* A line of input that is not a command.
UserMessage ==
    /\ script \in ChatScripts
    /\ pc = "dispatch"
    /\ Command(strip(typed)) = "message"
    /\ runNo < MaxMessages
    /\ typed' = NoLine
    /\ msgs' = 0
    /\ runs' = 0
    /\ pc' = "send"
    /\ UNCHANGED << script, exit_code, session, hostRaised, runNo, msgThread,
                    runThread, loopVars, testVars, keyVars, agentVars, threadVars >>

\* Mutant: a run that did not complete ends the session.
ChatAfterRun_GivesUp(r) == IF r.status = "completed" THEN "prompt" ELSE "exited"

\* Mutant: a run that did not complete is sent once more.
ChatAfterRun_Resends(r) == IF r.status = "completed" THEN "prompt" ELSE "send"

\* Where a chat loop goes once the outcome of the run is printed: both
\* branches of `if run.status == "completed"` fall through to the next pass
\* of `while True`.
ChatAfterRun(r) == "prompt"

\* The run's outcome is printed and the prompt returns.
Report ==
    /\ script \in ChatScripts
    /\ pc = "done"
    /\ IF ChatAfterRun(run) = "exited"
       THEN LeaveWith(1)
       ELSE pc' = ChatAfterRun(run) /\ UNCHANGED << exit_code, session >>
    /\ LoopLeft
    /\ UNCHANGED << script, typed, hostRaised, testVars, keyVars,
                    agentVars, threadVars, sentVars >>

\* messages.list raises while the answer of a completed run is read.
ReportRaises ==
    /\ script \in ChatScripts
    /\ pc = "done"
    /\ run.status = "completed"
    /\ Caught(TRUE)
    /\ LoopLeft
    /\ UNCHANGED << script, typed, testVars, keyVars, agentVars,
                    threadVars, sentVars >>

----------------------------------------------------------------------------
(* Specifications *)

Start(f) ==
    /\ script \in Scripts
    /\ pc = "config"
    /\ feed = f
    /\ runNo = 0
    /\ run = NoRun
    /\ attempt = 0
    /\ sleeps = 0
    /\ fetches = 0
    /\ iterCalls = << >>
    /\ episodeSubmits = 0
    /\ log = << >>
    /\ runOpen = FALSE
    /\ test_results = << >>
    /\ tool_calls_made = {}
    /\ ended = << >>
    /\ exit_code = -1
    /\ session = "none"
    /\ authType = "unread"
    /\ api_key = "None"
    /\ secretCalls = 0
    /\ mcp_headers = "unset"
    /\ configFailed = FALSE
    /\ agents \in 0 .. 1
    /\ agent_id = -1
    /\ lastFound = -1
    /\ prevFound = -1
    /\ launches = 1
    /\ declined = FALSE
    /\ agentCalls = << >>
    /\ thread = 0
    /\ threadsMade = 0
    /\ oldThreads = {}
    /\ typed = NoLine
    /\ msgs = 0
    /\ runs = 0
    /\ msgThread = 0
    /\ runThread = 0
    /\ hostRaised = FALSE

Init == Start(Free)

Next ==
    \/ LoadConfig
    \/ ConfigFails
    \/ GetSecret
    \/ SecretFails
    \/ Connect
    \/ ConnectFails
    \/ DeployFind
    \/ LookUp
    \/ LookUpRaises
    \/ Confirm
    \/ GetAgent
    \/ GetAgentRaises
    \/ InitTool
    \/ CreateThread
    \/ CreateThreadRaises
    \/ Upsert
    \/ UpsertRaises
    \/ Relaunch
    \/ Sleep
    \/ Fetch
    \/ FetchRaises
    \/ GithubChatHandle
    \/ SqlChatHandle
    \/ GithubTestHandle
    \/ SqlTestHandle
    \/ HandleRaises
    \/ StartScenario
    \/ SendMessage
    \/ SendMessageRaises
    \/ CreateRun
    \/ CreateRunRaises
    \/ RecordResult
    \/ RecordRaises
    \/ Summary
    \/ ReadLine
    \/ Interrupt
    \/ EmptyLine
    \/ Quit
    \/ Help
    \/ Clear
    \/ ClearRaises
    \/ UserMessage
    \/ Report
    \/ ReportRaises

Spec == Init /\ [][Next]_vars

\* The status sequence of the spec's scenario: queued, in_progress,
\* requires_action with the pending calls l, in_progress, completed.
Plain(s) == [status |-> s, required_action |-> NoAction]

ScenarioFeed(l) ==
    << Plain("queued"), Plain("in_progress"),
       [status |-> "requires_action", required_action |-> ApprovalAction(l)],
       Plain("in_progress"), Plain("completed") >>

\* The first run is answered by the scenario, later runs freely.
InitScenario ==
    \E l \in ToolCallLists :
        /\ Len(l) = 2
        /\ Start(Scripted(ScenarioFeed(l)))

SpecScenario == InitScenario /\ [][Next]_vars

----------------------------------------------------------------------------
(* Properties of the polling loops *)

\* The run object holds a status received from runs.get, and the loop step
\* that handles it has been taken.
Handled == fetches >= 1 /\ pc \in {"sleep", "done"}

\* What the code after the loop reads: run.status (completed_run.status in
\* chat-with-github-agent).
CallerStatus == run.status

Submissions == { i \in DOMAIN iterCalls : iterCalls[i].op = "submit" }
Cancels == { i \in DOMAIN iterCalls : iterCalls[i].op = "cancel" }

ApprovedIds(call) == { call.tool_approvals[j].call_id : j \in DOMAIN call.tool_approvals }

\* C1: in each of the four loops every iteration sleeps once, adds one to
\* attempt and calls runs.get once, and the loop never starts an iteration
\* beyond max_attempts: 120 in the GitHub chat, 60 in the other three.
C1_OneFetchPerAttemptBounded ==
    LET bound == IF script = "chat_github" THEN 120 ELSE 60
    IN  /\ sleeps = attempt
        /\ pc = "fetch" => fetches = attempt - 1
        /\ pc \in {"sleep", "handle", "done"} => fetches = attempt
        /\ attempt <= bound
        /\ pc = "sleep" => attempt < bound

\* C1 witness: the GitHub chat loop has run its 120 iterations.
C1_Witness ==
    /\ script = "chat_github"
    /\ pc = "done"
    /\ attempt = 120
    /\ fetches = 120
    /\ sleeps = 120

\* C2: after a poll that returned requires_action with at least one pending
\* tool call, exactly one submission has been made before the next poll, and
\* it holds exactly one approval for each pending call id.
C2_OneApprovalPerPendingCall ==
    (Handled /\ run.status = "requires_action" /\ run.required_action.tool_calls # << >>)
    => /\ Len(iterCalls) = 1
       /\ iterCalls[1].op = "submit"
       /\ Len(iterCalls[1].tool_approvals) = Len(run.required_action.tool_calls)
       /\ ApprovedIds(iterCalls[1]) = PendingIds(run)

\* C3: after a poll that returned requires_action with no pending tool call,
\* the run has been cancelled once, nothing was submitted and polling stopped.
C3_EmptyEpisodeCancelled ==
    (Handled /\ run.status = "requires_action"
             /\ run.required_action.shape = "approval"
             /\ run.required_action.tool_calls = << >>)
    => /\ iterCalls = << CancelCall >>
       /\ pc = "done"

\* C4: a loop whose polls all returned a non-terminal status stops after
\* exactly max_attempts polls, not before and not after, and the status its
\* caller reads is none of completed, failed, cancelled, expired.
C4_TimeoutAfterMaxAttempts ==
    /\ pc = "sleep" => attempt < max_attempts
    /\ (pc = "done" /\ fetches >= 1 /\ run.status \in NonTerminal /\ Cancels = {})
       => attempt = max_attempts
    /\ (pc = "done" /\ attempt = max_attempts /\ run.status \in NonTerminal)
       => /\ fetches = max_attempts
          /\ CallerStatus \notin {"completed", "failed", "cancelled", "expired"}

\* C4 witness: the SQL test loop has given up after 60 polls of in_progress.
C4_Witness ==
    /\ script = "test_sql"
    /\ pc = "done"
    /\ fetches = 60
    /\ run.status = "in_progress"

\* C5: once a poll has returned completed, failed, cancelled or expired, the
\* loop ends in that iteration: it never sleeps or polls again for that run,
\* and it issues no submission and no cancel.
C5_TerminalStatusEndsPolling ==
    (fetches >= 1 /\ run.status \in Terminal /\ pc \in {"sleep", "fetch", "handle", "done"})
    => /\ pc \in {"handle", "done"}
       /\ iterCalls = << >>

\* C5 witness: the GitHub chat loop has returned on an expired run.
C5_Witness ==
    /\ script = "chat_github"
    /\ pc = "done"
    /\ fetches >= 1
    /\ attempt < max_attempts
    /\ run.status = "expired"

\* C6: when the polls of a run return queued, in_progress, requires_action
\* with 2 pending calls, in_progress, completed, the loop makes exactly one
\* submission, of 2 approvals, issues no cancel, and ends on completed.
C6_ScenarioOneSubmissionOfTwo ==
    (~feed.free /\ feed.rest = << >> /\ pc = "done")
    => /\ Len(log) = 1
       /\ log[1].op = "submit"
       /\ Len(log[1].tool_approvals) = 2
       /\ CallerStatus = "completed"

\* C7: at most one submission is made in a requires_action episode (a maximal
\* run of consecutive polls returning requires_action with the same pending
\* call ids).
C7_OneSubmissionPerEpisode == episodeSubmits <= 1

\* C8: every approval in every submission has approve = TRUE.
C8_EveryApprovalApproves ==
    \A i \in Submissions :
        \A j \in DOMAIN iterCalls[i].tool_approvals :
            iterCalls[i].tool_approvals[j].approve = TRUE

\* C8 witness: the SQL chat loop has submitted approvals for two pending
\* calls, one of them not an MCP tool call.
C8_Witness ==
    /\ script = "chat_sql"
    /\ Handled
    /\ Submissions # {}
    /\ \E i \in Submissions : Len(iterCalls[i].tool_approvals) = 2
    /\ \E k \in DOMAIN run.required_action.tool_calls : ~run.required_action.tool_calls[k].mcp

\* C9: an iteration whose poll returned queued or in_progress issues no
\* submission and no cancel, and the loop goes on to the next iteration
\* unless attempt has reached max_attempts.
C9_WaitingStatusNoCall ==
    (Handled /\ run.status \in {"queued", "in_progress"})
    => /\ iterCalls = << >>
       /\ attempt < max_attempts => pc = "sleep"
       /\ attempt >= max_attempts => pc = "done"

\* C9 witness: the SQL chat loop goes on after a poll that returned in_progress.
C9_Witness ==
    /\ script = "chat_sql"
    /\ Handled
    /\ run.status = "in_progress"
    /\ pc = "sleep"
    /\ attempt >= 2

\* C10: a test script returns 0 exactly when every scenario's run ended with
\* status completed, and 1 otherwise.
C10_ExitCodeZeroIffAllCompleted ==
    (script \in TestScripts /\ pc = "exited")
    => /\ exit_code \in {0, 1}
       /\ exit_code = 0 <=> (Len(ended) = NumScenarios /\ \A i \in DOMAIN ended : ended[i])

\* C10 witness: test-github-agent has returned 1 after one scenario of its
\* three did not end completed.
C10_Witness ==
    /\ script = "test_github"
    /\ pc = "exited"
    /\ exit_code = 1
    /\ ended = << TRUE, FALSE, TRUE >>

----------------------------------------------------------------------------
(* Properties of the entry points *)

\* C11: in every entry point, once the client session is open it is closed
\* on every path that leaves main(): normal completion, poll timeout, agent
\* not found, update declined, any exception.
C11_SessionClosedOnExit ==
    /\ pc = "exited" => session # "open"
    /\ session = "open" => pc \notin {"config", "connect", "exited"}

\* C11 witness: test-sql-agent has left main() on an exception raised while a
\* run was polled, and the session is closed.
C11_Witness ==
    /\ script = "test_sql"
    /\ pc = "exited"
    /\ exit_code = 1
    /\ hostRaised
    /\ runNo >= 1
    /\ session = "closed"

\* What a list of calls amounts to, payload shape left aside: per call, its
\* kind and the call ids it approves.
Issued(calls) == [ i \in DOMAIN calls |-> [op |-> calls[i].op, ids |-> ApprovedIds(calls[i])] ]

\* C12: the four polling loops are equivalent: for the same fetched run they
\* issue the same submissions (same call ids) and cancels, and they agree on
\* whether polling ends there.
C12_LoopsAgree ==
    pc = "handle"
    => /\ Issued(IF GithubChatReturns(run) THEN << >> ELSE GithubChatCalls(run))
            = Issued(SqlChatCalls(run))
       /\ Issued(SqlChatCalls(run)) = Issued(TestCalls(run))
       /\ GithubChatReturns(run) <=> (SqlChatAnomaly(run) \/ ~SqlChatWhile(run))
       /\ (SqlChatAnomaly(run) \/ ~SqlChatWhile(run)) <=> (TestAnomaly(run) \/ ~TestWhile(run))

\* C13: in the chat loops, after `clear` the loop holds a new thread whose id
\* differs from every thread it held before, and every later message and run
\* is created on that thread, none on a replaced one.
C13_ClearSwitchesThread ==
    script \in ChatScripts
    => /\ thread \notin oldThreads
       /\ pc \in {"create_run", "sleep", "fetch", "handle", "done"}
          => (msgThread = thread /\ msgThread \notin oldThreads)
       /\ pc \in {"sleep", "fetch", "handle", "done"}
          => (runThread = thread /\ runThread \notin oldThreads)

\* C13 witness: a chat loop has run its second message on thread 2 after a
\* `clear` replaced thread 1.
C13_Witness ==
    /\ script \in ChatScripts
    /\ oldThreads = {1}
    /\ thread = 2
    /\ pc = "done"
    /\ runNo = 2
    /\ msgThread = 2
    /\ runThread = 2

ReservedWords == {"", "quit", "exit", "bye", "help", "clear"}
QuitWords == {"quit", "exit", "bye"}

\* C14: in the chat loops a line that is, trimmed and in any letter case,
\* quit, exit, bye, help or clear, or is empty, creates no message and no run;
\* quit, exit and bye end the session with exit code 0; help and the empty
\* line leave the thread as it is and return to the prompt.
C14_ReservedInputsSendNothing ==
    [][ (script \in ChatScripts /\ pc = "dispatch" /\ typed.word \in ReservedWords)
        => /\ runNo' = runNo
           /\ msgs' = msgs
           /\ runs' = runs
           /\ msgThread' = msgThread
           /\ runThread' = runThread
           /\ pc' \in {"prompt", "exited"}
           /\ typed.word \in QuitWords => (pc' = "exited" /\ exit_code' = 0)
           /\ typed.word \in {"", "help"} => (pc' = "prompt" /\ thread' = thread)
      ]_vars

\* C14 witness: chat-with-sql-agent has returned 0 on the line " QUIT ",
\* typed after a message.
C14_Witness ==
    /\ script = "chat_sql"
    /\ pc = "exited"
    /\ exit_code = 0
    /\ typed = [word |-> "quit", upper |-> TRUE, padded |-> TRUE]
    /\ runNo >= 1

\* C15: in the chat loops a run that ends other than completed (failed,
\* cancelled, expired, timed out, cancelled as an anomaly) does not end the
\* session: the prompt returns with the same thread, and a later quit still
\* returns 0.
C15_FailedRunKeepsSession ==
    /\ [][ (script \in ChatScripts /\ pc = "done" /\ run.status # "completed")
           => /\ pc' = "prompt"
              /\ thread' = thread
              /\ exit_code' = -1
              /\ session' = "open"
         ]_vars
    /\ [] ((script \in ChatScripts /\ pc = "exited" /\ typed.word \in QuitWords)
           => exit_code = 0)

\* C15 witness: a chat script has returned 0 on quit after a run that failed.
C15_Witness ==
    /\ script \in ChatScripts
    /\ pc = "exited"
    /\ exit_code = 0
    /\ typed.word \in QuitWords
    /\ run.status = "failed"
    /\ thread = 1

\* C16: an exception raised by a hosting-service call is recovered inside a
\* chat loop iteration (the prompt returns, a later quit returns 0) and is
\* fatal in the one-shot scripts: the test and deployment scripts return 1
\* without running what remains.
C16_HostExceptionFatalOrRecovered ==
    hostRaised
    => IF script \in ChatScripts
       THEN thread # 0 => \/ (pc = "prompt" /\ exit_code = -1 /\ session = "open")
                          \/ (pc = "exited" /\ exit_code = 0)
       ELSE pc = "exited" /\ exit_code = 1

\* C17: no run is retried: for each line that is not a command, and for each
\* test scenario, exactly one message and then exactly one run are created,
\* both before the first runs.get, whatever the outcome of the run.
C17_OneMessageOneRunPerInput ==
    script \in ChatScripts \cup TestScripts
    => /\ pc = "send" => (msgs = 0 /\ runs = 0 /\ fetches = 0)
       /\ pc = "create_run" => (msgs = 1 /\ runs = 0 /\ fetches = 0)
       /\ pc \in {"sleep", "fetch", "handle", "done"} => (msgs = 1 /\ runs = 1)
       /\ (script \in TestScripts /\ pc = "summary") => runNo = NumScenarios

\* C17 witness: test-sql-agent has reached its summary with four runs made
\* for its four scenarios, two of which did not end completed.
C17_Witness ==
    /\ script = "test_sql"
    /\ pc = "summary"
    /\ runNo = 4
    /\ ended = << FALSE, TRUE, FALSE, TRUE >>
    /\ msgs = 1
    /\ runs = 1

\* C18: two consecutive lookups of a deployment script's find_agent_by_name,
\* with no agent created or updated in between, return the same result.
C18_LookupIdempotent ==
    (prevFound # -1 /\ lastFound # -1) => lastFound = prevFound

\* C19: when the configuration declares authType none, no GitHub entry point
\* (deployment, test, chat) calls the secret store.
C19_GithubNoSecretCall ==
    (script \in GithubScripts /\ authType = "none") => secretCalls = 0

\* C19 witness: chat-with-github-agent, configured with authType none, has
\* run a message and returned 0 without a call to the secret store.
C19_Witness ==
    /\ script = "chat_github"
    /\ authType = "none"
    /\ pc = "exited"
    /\ exit_code = 0
    /\ runNo >= 1
    /\ secretCalls = 0

\* What C20 says of a state in which the key `key` was retrieved: the SQL
\* deployment is about to write the agent with the header on the tool, the SQL
\* test and chat scripts create and poll their runs with it, and every
\* approval they submit carries it.
HeaderCarried(key) ==
    /\ (script = "deploy_sql" /\ pc = "upsert") => mcp_headers = key
    /\ (script \in {"test_sql", "chat_sql"}
        /\ pc \in {"send", "create_run", "sleep", "fetch", "handle", "done"})
       => mcp_headers = key
    /\ script \in {"test_sql", "chat_sql"}
       => \A i \in Submissions :
            \A j \in DOMAIN iterCalls[i].tool_approvals :
                iterCalls[i].tool_approvals[j].headers = key

\* C20 as stated: with authType apiKey and the secret store returning v, the
\* MCP tool carries X-API-Key = v before the agent is written and before any
\* run is created, and every approval of the SQL test and chat loops carries it.
C20_AnyKeyValue ==
    (script \in SqlScripts /\ authType = "apiKey" /\ api_key # "None")
    => HeaderCarried(api_key)

\* C20, amended: with authType apiKey and the secret store returning a value
\* v that is not empty, the MCP tool carries X-API-Key = v before the agent is
\* written and before any run is created, and every approval of the SQL test
\* and chat loops carries it.
C20_ApiKeyHeaderCarried ==
    (script \in SqlScripts /\ authType = "apiKey" /\ api_key \notin {"None", ""})
    => HeaderCarried(api_key)

\* C20 witness: test-sql-agent, with the key abc123, has submitted approvals.
C20_Witness ==
    /\ script = "test_sql"
    /\ authType = "apiKey"
    /\ api_key = "abc123"
    /\ Handled
    /\ Submissions # {}
    /\ mcp_headers = "abc123"

\* C21: in the SQL deployment script, when authType is apiKey and the key
\* cannot be retrieved (the secret store fails, or the vault name is missing
\* from the configuration), the script returns 1 without connecting to the
\* hosting service: no lookup, no create_agent, no update_agent.
C21_SqlDeployKeyFailureExits ==
    (script = "deploy_sql" /\ authType = "apiKey" /\ api_key = "None" /\ pc # "secret")
    => /\ pc = "exited"
       /\ exit_code = 1
       /\ session = "none"
       /\ agent_id = -1
       /\ agentCalls = << >>

\* C21 witness: mcp-sql-agent has returned 1 after the secret store refused
\* the key, with no client made.
C21_Witness ==
    /\ script = "deploy_sql"
    /\ authType = "apiKey"
    /\ api_key = "None"
    /\ secretCalls = 1
    /\ pc = "exited"
    /\ exit_code = 1
    /\ session = "none"
    /\ agent_id = -1

\* C22: in every entry point a failed read of the configuration ends the
\* process with code 1 before any call to the secret store, before the client
\* is made, and before any agent, thread, message or run call.
C22_ConfigFailureExitsFirst ==
    configFailed
    => /\ pc = "exited"
       /\ exit_code = 1
       /\ secretCalls = 0
       /\ session = "none"
       /\ agent_id = -1
       /\ thread = 0
       /\ runNo = 0
       /\ msgs = 0

\* C23: in the test and chat scripts, when the lookup finds no agent the
\* script returns 1 and creates no thread, no message and no run.
C23_AgentNotFoundExits ==
    (script \in TestScripts \cup ChatScripts /\ agent_id = 0)
    => /\ pc = "exited"
       /\ exit_code = 1
       /\ thread = 0
       /\ threadsMade = 0
       /\ runNo = 0
       /\ msgs = 0
       /\ runs = 0
       /\ msgThread = 0
       /\ runThread = 0

\* C23 witness: chat-with-sql-agent has returned 1 because no agent carries
\* the configured name.
C23_Witness ==
    /\ script = "chat_sql"
    /\ agents = 0
    /\ agent_id = 0
    /\ pc = "exited"
    /\ exit_code = 1
    /\ session = "closed"
    /\ threadsMade = 0

\* C24: a deployment script makes at most one update_agent / create_agent
\* call per run, chosen by the lookup: update_agent on the found id when an id
\* was found and the operator did not answer n, create_agent when the lookup
\* returned None, and neither, with exit code 0, when the operator answered n.
C24_OneAgentCallByLookup ==
    script \in DeployScripts
    => /\ Len(agentCalls) <= 1
       /\ \A i \in DOMAIN agentCalls :
            /\ agentCalls[i].op = "update"
               => (agent_id > 0 /\ ~declined /\ agentCalls[i].id = agent_id)
            /\ agentCalls[i].op = "create" => agent_id = 0
       /\ (pc = "exited" /\ exit_code = 0 /\ agent_id > 0 /\ ~declined)
          => agentCalls = << [op |-> "update", id |-> agent_id] >>
       /\ (pc = "exited" /\ exit_code = 0 /\ agent_id = 0)
          => agentCalls = << [op |-> "create", id |-> 0] >>
       /\ declined
          => (agent_id > 0 /\ agentCalls = << >> /\ pc = "exited" /\ exit_code = 0)

\* C24 witness: mcp-github-agent, started a second time, has updated the
\* agent its first run created.
C24_Witness ==
    /\ script = "deploy_github"
    /\ launches = 2
    /\ agents = 1
    /\ agent_id = 1
    /\ pc = "exited"
    /\ exit_code = 0
    /\ agentCalls = << [op |-> "update", id |-> 1] >>

\* C25: a deployment script never creates an agent while one of the
\* configured name exists: however often it is run, the service holds at most
\* one agent of that name, also when the listing call of the lookup raises.
C25_AtMostOneAgent == agents <= 1

\* C26: in the test scripts and the chat loops a message is created on a
\* thread only when every run the script made on that thread before was seen
\* in a terminal status or was cancelled by the script, also after a poll
\* timeout.
C26_NoMessageWhileRunOpen ==
    (script \in TestScripts \cup ChatScripts /\ pc = "create_run") => ~runOpen

\* What the SQL scripts have passed once McpTool is built.
ToolBuilt ==
    pc \in {"upsert", "thread", "scenario", "prompt", "dispatch", "send", "create_run",
            "sleep", "fetch", "handle", "done", "summary"}

\* C27: in the SQL entry points the secret store is called if and only if
\* authType is apiKey; with any other authType there is no call to the secret
\* store and no X-API-Key header.
C27_SecretIffApiKey ==
    script \in SqlScripts
    => /\ (authType = "apiKey" /\ ToolBuilt) => secretCalls >= 1
       /\ authType \notin {"apiKey", "unread"}
          => (secretCalls = 0 /\ mcp_headers = "unset")

\* C28: in the test loops a pending call that is not a RequiredMcpToolCall is
\* approved too: after a poll that returned requires_action with pending
\* calls, a submission holds an approval for every pending call id.
C28_TestLoopsApproveEveryCall ==
    (script \in TestScripts /\ Handled /\ TestApproves(run)
        /\ run.required_action.tool_calls # << >>)
    => \E i \in Submissions : ApprovedIds(iterCalls[i]) = PendingIds(run)

\* C29: when a poll returns requires_action with no required action, or one
\* that is not of the approval shape, the loop does not poll on silently: in
\* that iteration it submits, cancels, or stops.
C29_NoSilentPolling ==
    (Handled /\ run.status = "requires_action"
             /\ run.required_action.shape \in {"none", "other"})
    => (iterCalls # << >> \/ pc = "done")

\* successful and total - successful of the summary.
Passed(results) == Cardinality({ i \in DOMAIN results : results[i].success })
Failed(results) == Len(results) - Passed(results)

\* C30: in the test scripts, unless a hosting-service call raises, every
\* scenario is run in list order whatever the earlier outcomes, one result is
\* recorded per scenario in that order, passed plus failed equals the number
\* of scenarios, and the tool calls recorded for a scenario are those seen
\* during its own run.
C30_EveryScenarioRecorded ==
    script \in TestScripts
    => /\ \A i \in DOMAIN test_results :
            /\ test_results[i].scenario = i
            /\ test_results[i].tool_calls = {}
       /\ pc \in {"sleep", "fetch", "handle", "done"}
          => (Len(test_results) = runNo - 1 /\ tool_calls_made \subseteq {runNo})
       /\ pc \in {"scenario", "send", "create_run"} => Len(test_results) = runNo
       /\ (pc = "scenario" /\ ~hostRaised) => runNo < NumScenarios
       /\ (pc = "summary" \/ (pc = "exited" /\ thread # 0 /\ ~hostRaised))
          => /\ Len(test_results) = NumScenarios
             /\ runNo = NumScenarios
             /\ Passed(test_results) + Failed(test_results) = NumScenarios

\* C30 witness: test-github-agent has reached its summary with three results,
\* the first a failure, and with tool calls recorded during the third run.
C30_Witness ==
    /\ script = "test_github"
    /\ pc = "summary"
    /\ Len(test_results) = 3
    /\ ~test_results[1].success
    /\ test_results[3].success
    /\ tool_calls_made = {3}

====
